---- MODULE Spec2Model ----
(***************************************************************************)
(* scipath.create_cubic_path_2d (src/scipath/cubic_path2d.py): one call of *)
(* the function, statement by statement.  The arrays are numpy float       *)
(* arrays; their arithmetic is binary floating point with rounding to      *)
(* nearest, ties to even.  The model keeps that rounding rule and lowers   *)
(* the width: a number is an integer count of units of 2^-FracBits with at *)
(* most Precision significant bits (float64 has 53).                       *)
(***************************************************************************)
EXTENDS Integers, Sequences, FiniteSets, TLC

\* Width of the significand of a float and the number of fractional bits
\* of the smallest positive float (the grid below which a value underflows).
Precision == 5
FracBits == 4
\* Longest waypoint sequence enumerated.
MaxPoints == 3

One == 2 ^ FracBits

-----------------------------------------------------------------------------
(* Floating-point arithmetic of the numpy kernels used at lines 108-109.   *)

Abs(a) == IF a < 0 THEN 0 - a ELSE a
Sign(a) == IF a < 0 THEN 0 - 1 ELSE 1

\* The binary exponent at which num/den has Precision significant bits.
RECURSIVE Exponent(_, _)
Exponent(num, den) ==
    IF num < den * (2 ^ Precision) THEN 0 ELSE 1 + Exponent(num, 2 * den)

\* num/den rounded to the nearest integer, ties to the even one.
NearestEven(num, den) ==
    LET m == num \div den
        r == num % den
    IN  IF 2 * r > den \/ (2 * r = den /\ m % 2 = 1) THEN m + 1 ELSE m

\* The float nearest to the non-negative rational num/den (in grid units).
Round(num, den) ==
    LET e == Exponent(num, den)
    IN  NearestEven(num, den * (2 ^ e)) * (2 ^ e)

FAdd(a, b) == Sign(a + b) * Round(Abs(a + b), 1)
FSub(a, b) == Sign(a - b) * Round(Abs(a - b), 1)
FMul(a, b) == Sign(a) * Sign(b) * Round(Abs(a) * Abs(b), One)
FDiv(a, b) == Sign(a) * Sign(b) * Round(Abs(a) * One, Abs(b))

\* The largest integer whose square is at most n.
ISqrt(n) == CHOOSE m \in 0..(2 ^ Precision) : m * m <= n /\ (m + 1) * (m + 1) > n

RECURSIVE SqrtExponent(_, _)
SqrtExponent(n, q) ==
    IF n < q * (4 ^ Precision) THEN 0 ELSE 1 + SqrtExponent(n, 4 * q)

\* The float nearest to the square root of a float a >= 0.
FSqrt(a) ==
    LET n == a * One
        e == SqrtExponent(n, 1)
        k == n \div (4 ^ e)
        m == ISqrt(k)
        \* sqrt(n) against the midpoint (2m+1) * 2^e / 2, compared in squares
        mid == (2 * m + 1) * (2 * m + 1) * (4 ^ e)
        up == mid < 4 * n \/ (mid = 4 * n /\ m % 2 = 1)
    IN  (IF up THEN m + 1 ELSE m) * (2 ^ e)

\* The smallest integer not below the float q >= 0.
Ceil(q) == (q + One - 1) \div One

-----------------------------------------------------------------------------
(* class Profile(IntEnum), lines 30-37: one hexadecimal digit per flag.    *)

PATH == 1
YAW == 16
CURVATURE == 256
NO_CURVATURE == 17
NO_YAW == 257
NO_PATH == 272
ALL == 273

Profiles == {PATH, YAW, CURVATURE, NO_CURVATURE, NO_YAW, NO_PATH, ALL}

\* Python's a & b on non-negative integers.
RECURSIVE BitAnd(_, _)
BitAnd(a, b) ==
    IF a = 0 \/ b = 0 THEN 0
    ELSE (a % 2) * (b % 2) + 2 * BitAnd(a \div 2, b \div 2)

\* The flag test with the mask dropped: `if profile:`.
RequestedAnyFlag(p, flag) == p # 0

\* `if profile & Profile.X:` (lines 120, 123, 128): the flag test.
Requested(p, flag) == BitAnd(p, flag) # 0

-----------------------------------------------------------------------------
(* Arguments of a call.                                                    *)

\* Waypoints the calls draw from: the origin, a point on the diagonal, a
\* point off it, and a point one grid unit away from the origin.
Points == {<<0, 0>>, <<One, One>>, <<0, One>>, <<0, 1>>}

\* invalid_waypoints of test_exception.
TestWaypoints == <<<<0, 0>>, <<One, One>>, <<One, One>>, <<0, One>>>>

WaypointSequences ==
    UNION {[1..n -> Points] : n \in 1..MaxPoints} \cup {TestWaypoints}

\* 13/16 and 3, in grid units.
DistanceSteps == {(13 * One) \div 16, 3 * One}

BoundaryConditions == {"natural", "clamped", "periodic", "bogus"}

-----------------------------------------------------------------------------
(* Optional values and exceptions.                                         *)

None == [present |-> FALSE, val |-> <<>>]
Some(v) == [present |-> TRUE, val |-> v]

NoException == [type |-> "", message |-> "", cause |-> <<>>]

ValueError(msg) == [type |-> "ValueError", message |-> msg, cause |-> <<>>]

\* The domain error raised without `from error`: no cause is chained.
ConsecutiveDuplicateErrorBare(error) ==
    [type |-> "ConsecutiveDuplicateError",
     message |-> "Your input should not contain consecutive duplicate(s)!",
     cause |-> <<>>]

\* class ConsecutiveDuplicateError, raised `from error`.
ConsecutiveDuplicateErrorFrom(error) ==
    [type |-> "ConsecutiveDuplicateError",
     message |-> "Your input should not contain consecutive duplicate(s)!",
     cause |-> <<error>>]

-----------------------------------------------------------------------------
(* Line 108: norms = concatenate((zeros(1), cumsum(norm(diff(points,       *)
(* axis=0), axis=1)))).                                                    *)

\* diff(points, axis=0): row i+1 minus row i, per column.
DiffAxis0(pts) ==
    [i \in 1..(Len(pts) - 1) |->
        <<FSub(pts[i + 1][1], pts[i][1]), FSub(pts[i + 1][2], pts[i][2])>>]

\* norm(rows, axis=1): sqrt of the sum of the squares of each row.
Norm(row) == FSqrt(FAdd(FMul(row[1], row[1]), FMul(row[2], row[2])))

\* cumsum: the running sum, accumulated left to right.
RECURSIVE CumSum(_)
CumSum(s) ==
    IF Len(s) = 0 THEN <<>>
    ELSE LET head == CumSum(SubSeq(s, 1, Len(s) - 1))
         IN  IF Len(head) = 0 THEN <<s[1]>>
             ELSE Append(head, FAdd(head[Len(head)], s[Len(s)]))

\* The running sum without the leading zeros(1).
ArcLengthsNoZero(pts) ==
    LET rows == DiffAxis0(pts)
    IN  CumSum([i \in 1..Len(rows) |-> Norm(rows[i])])

ArcLengths(pts) ==
    LET rows == DiffAxis0(pts)
    IN  <<0>> \o CumSum([i \in 1..Len(rows) |-> Norm(rows[i])])

-----------------------------------------------------------------------------
(* Line 109: steps = arange(0, norms[-1], distance_step).                  *)

\* numpy.arange on floats: ceil((stop - start) / step) entries; the first two
\* are start and start + step, entry i is start + i * delta with
\* delta = (start + step) - start.
Arange(start, stop, step) ==
    LET length == Ceil(FDiv(FSub(stop, start), step))
        next == FAdd(start, step)
        delta == FSub(next, start)
    IN  [i \in 1..length |->
            IF i = 1 THEN start
            ELSE IF i = 2 THEN next
            ELSE FAdd(start, FMul((i - 1) * One, delta))]

-----------------------------------------------------------------------------
(* Lines 111-118: the curve fit and its guard.                             *)

StrictlyIncreasing(x) == \A i \in 1..(Len(x) - 1) : x[i] < x[i + 1]

\* The ValueError CubicSpline(x, y, bc_type=bc, axis=0) raises, in the order
\* of its checks, or NoException when the fit succeeds.
CubicSplineError(x, y, bc) ==
    IF Len(x) < 2 THEN ValueError("x must contain at least 2 elements")
    ELSE IF ~StrictlyIncreasing(x)
        THEN ValueError("x must be strictly increasing sequence")
    ELSE IF bc \notin {"not-a-knot", "natural", "clamped", "periodic"}
        THEN ValueError("bc_type is not allowed")
    ELSE IF bc = "periodic" /\ y[1] # y[Len(y)]
        THEN ValueError("The first and last y point must be identical when bc_type is periodic")
    ELSE NoException

NoSpline == [fitted |-> FALSE, x |-> <<>>, y |-> <<>>, bc |-> ""]
CubicSpline(x, y, bc) == [fitted |-> TRUE, x |-> x, y |-> y, bc |-> bc]

\* diff(points, axis=1): within each row, the second column minus the first.
DiffAxis1(pts) == [i \in 1..Len(pts) |-> <<FSub(pts[i][2], pts[i][1])>>]

\* ndarray.all(): every element is non-zero.
All(rows) == \A i \in 1..Len(rows) : \A j \in 1..Len(rows[i]) : rows[i][j] # 0

\* The handler's test at line 115: TRUE re-raises the fit error.
GuardReraises(pts) == All(DiffAxis1(pts))

-----------------------------------------------------------------------------
(* Lines 120-132: evaluation of the fitted curve.  The solver is external; *)
(* a value of the curve is kept as the term it is (derivative order,       *)
(* abscissa) together with what the control flow reads of it: whether it   *)
(* is exactly zero.                                                        *)

AxisConstant(y, axis) == \A i \in 1..Len(y) : y[i][axis] = y[1][axis]

\* An axis whose ordinates are all equal is fitted by a constant: all its
\* derivatives are exactly zero; 'clamped' sets the first derivative at the
\* first knot to zero.  Elsewhere a value is taken as non-zero.
IsZero(cs, nu, axis, s) ==
    \/ nu = 0 /\ AxisConstant(cs.y, axis) /\ cs.y[1][axis] = 0
    \/ nu >= 1 /\ AxisConstant(cs.y, axis)
    \/ nu = 1 /\ cs.bc = "clamped" /\ s = cs.x[1]

\* The curve evaluated at the index of each abscissa instead of its value.
SplineColumnAtIndex(cs, nu, axis, xs) ==
    [i \in 1..Len(xs) |->
        [nu |-> nu, axis |-> axis, at |-> (i - 1) * One,
         zero |-> IsZero(cs, nu, axis, (i - 1) * One)]]

\* cubic_spline.derivative(nu)(xs).T, or cubic_spline(xs).T for nu = 0: one
\* array per axis, one entry per abscissa.
SplineColumn(cs, nu, axis, xs) ==
    [i \in 1..Len(xs) |->
        [nu |-> nu, axis |-> axis, at |-> xs[i], zero |-> IsZero(cs, nu, axis, xs[i])]]

\* cubic_spline(xs): one row (x, y) per abscissa.
SplineRows(cs, xs) ==
    [i \in 1..Len(xs) |->
        <<SplineColumn(cs, 0, 1, xs)[i], SplineColumn(cs, 0, 2, xs)[i]>>]

\* arctan2(dy, dx), elementwise.
ArcTan2(b, a) == [i \in 1..Len(b) |-> [fn |-> "arctan2", args |-> <<b[i], a[i]>>]]

\* (dx * ddy - dy * ddx) / (dx * dx + dy * dy) ** 1.5, elementwise.
Curvature(a, b, dda, ddb) ==
    [i \in 1..Len(a) |-> [fn |-> "curvature", args |-> <<a[i], b[i], dda[i], ddb[i]>>]]

\* bool(v) for v None or an array: the outcomes it can have.  An array of more
\* than one element raises ValueError; an empty one is False or raises,
\* depending on the numpy release.
Truth(v) ==
    IF ~v.present THEN {"False"}
    ELSE IF Len(v.val) = 0 THEN {"False", "Error"}
    ELSE IF Len(v.val) = 1 THEN (IF v.val[1].zero THEN {"False"} ELSE {"True"})
    ELSE {"Error"}

\* `a and b` used as a condition: b is tested only when a is truthy.
AndTruth(a, b) ==
    (Truth(a) \ {"True"}) \cup (IF "True" \in Truth(a) THEN Truth(b) ELSE {})

AmbiguousTruth ==
    ValueError("The truth value of an array with more than one element is ambiguous")

\* CubicPath2D(path, yaw, curvature), the NamedTuple.
CubicPath2D(p, y, c) == [path |-> p, yaw |-> y, curvature |-> c]

-----------------------------------------------------------------------------
(* One call of create_cubic_path_2d.                                       *)

VARIABLES points, profile, distance_step, boundary_condition_type,
          pc, norms, steps, cubic_spline, path, yaw, curvature, dx, dy,
          raised, result, calls

vars == <<points, profile, distance_step, boundary_condition_type,
          pc, norms, steps, cubic_spline, path, yaw, curvature, dx, dy,
          raised, result, calls>>

args == <<points, profile, distance_step, boundary_condition_type>>

\* Lines 103-107.
Init ==
    /\ points \in WaypointSequences
    /\ profile \in Profiles
    /\ distance_step \in DistanceSteps
    /\ boundary_condition_type \in BoundaryConditions
    /\ pc = "norms"
    /\ norms = <<>>
    /\ steps = <<>>
    /\ cubic_spline = NoSpline
    /\ path = None
    /\ yaw = None
    /\ curvature = None
    /\ dx = None
    /\ dy = None
    /\ raised = NoException
    /\ result = CubicPath2D(None, None, None)
    /\ calls = [position |-> 0, first |-> 0, second |-> 0, arctan2 |-> 0]

\* Line 108.
Parameterize ==
    /\ pc = "norms"
    /\ norms' = ArcLengths(points)
    /\ pc' = "steps"
    /\ UNCHANGED <<args, steps, cubic_spline, path, yaw, curvature, dx, dy,
                   raised, result, calls>>

\* Line 109.
Sample ==
    /\ pc = "steps"
    /\ steps' = Arange(0, norms[Len(norms)], distance_step)
    /\ pc' = "fit"
    /\ UNCHANGED <<args, norms, cubic_spline, path, yaw, curvature, dx, dy,
                   raised, result, calls>>

\* Line 112, the fit succeeding.
Fit ==
    /\ pc = "fit"
    /\ CubicSplineError(norms, points, boundary_condition_type) = NoException
    /\ cubic_spline' = CubicSpline(norms, points, boundary_condition_type)
    /\ pc' = "path"
    /\ UNCHANGED <<args, norms, steps, path, yaw, curvature, dx, dy,
                   raised, result, calls>>

\* Lines 114-116: the fit raises and the guard re-raises its error.
FitReraise ==
    /\ pc = "fit"
    /\ CubicSplineError(norms, points, boundary_condition_type) # NoException
    /\ GuardReraises(points)
    /\ raised' = CubicSplineError(norms, points, boundary_condition_type)
    /\ pc' = "raised"
    /\ UNCHANGED <<args, norms, steps, cubic_spline, path, yaw, curvature,
                   dx, dy, result, calls>>

\* Lines 114-118: the fit raises and the guard reclassifies its error.
FitDuplicate ==
    /\ pc = "fit"
    /\ CubicSplineError(norms, points, boundary_condition_type) # NoException
    /\ ~GuardReraises(points)
    /\ raised' = ConsecutiveDuplicateErrorFrom(
                    CubicSplineError(norms, points, boundary_condition_type))
    /\ pc' = "raised"
    /\ UNCHANGED <<args, norms, steps, cubic_spline, path, yaw, curvature,
                   dx, dy, result, calls>>

\* Lines 120-121.
EvalPath ==
    /\ pc = "path"
    /\ IF Requested(profile, PATH)
       THEN /\ path' = Some(SplineRows(cubic_spline, steps))
            /\ calls' = [calls EXCEPT !.position = @ + 1]
       ELSE UNCHANGED <<path, calls>>
    /\ pc' = "yaw"
    /\ UNCHANGED <<args, norms, steps, cubic_spline, yaw, curvature, dx, dy,
                   raised, result>>

\* Lines 123-126.
EvalYaw ==
    /\ pc = "yaw"
    /\ IF Requested(profile, YAW)
       THEN LET a == SplineColumn(cubic_spline, 1, 1, steps)
                b == SplineColumn(cubic_spline, 1, 2, steps)
            IN  /\ dx' = Some(a)
                /\ dy' = Some(b)
                /\ yaw' = Some(ArcTan2(b, a))
                /\ calls' = [calls EXCEPT !.first = @ + 1, !.arctan2 = @ + 1]
       ELSE UNCHANGED <<dx, dy, yaw, calls>>
    /\ pc' = "curvature"
    /\ UNCHANGED <<args, norms, steps, cubic_spline, path, curvature,
                   raised, result>>

\* Line 128 with the flag absent.
SkipCurvature ==
    /\ pc = "curvature"
    /\ ~Requested(profile, CURVATURE)
    /\ pc' = "return"
    /\ UNCHANGED <<args, norms, steps, cubic_spline, path, yaw, curvature,
                   dx, dy, raised, result, calls>>

\* Lines 128-132, `dx and dy` truthy: the arrays of line 125 are kept.
CurvatureReuse ==
    /\ pc = "curvature"
    /\ Requested(profile, CURVATURE)
    /\ "True" \in AndTruth(dx, dy)
    /\ LET dda == SplineColumn(cubic_spline, 2, 1, steps)
           ddb == SplineColumn(cubic_spline, 2, 2, steps)
       IN  curvature' = Some(Curvature(dx.val, dy.val, dda, ddb))
    /\ calls' = [calls EXCEPT !.second = @ + 1]
    /\ pc' = "return"
    /\ UNCHANGED <<args, norms, steps, cubic_spline, path, yaw, dx, dy,
                   raised, result>>

\* Lines 128-132, `dx and dy` falsy: the first derivative is evaluated.
CurvatureRecompute ==
    /\ pc = "curvature"
    /\ Requested(profile, CURVATURE)
    /\ "False" \in AndTruth(dx, dy)
    /\ LET a == SplineColumn(cubic_spline, 1, 1, steps)
           b == SplineColumn(cubic_spline, 1, 2, steps)
           dda == SplineColumn(cubic_spline, 2, 1, steps)
           ddb == SplineColumn(cubic_spline, 2, 2, steps)
       IN  /\ dx' = Some(a)
           /\ dy' = Some(b)
           /\ curvature' = Some(Curvature(a, b, dda, ddb))
    /\ calls' = [calls EXCEPT !.first = @ + 1, !.second = @ + 1]
    /\ pc' = "return"
    /\ UNCHANGED <<args, norms, steps, cubic_spline, path, yaw, raised, result>>

\* Lines 128-130, `dx and dy` raising: the truth value of an array.
CurvatureRaise ==
    /\ pc = "curvature"
    /\ Requested(profile, CURVATURE)
    /\ "Error" \in AndTruth(dx, dy)
    /\ raised' = AmbiguousTruth
    /\ pc' = "raised"
    /\ UNCHANGED <<args, norms, steps, cubic_spline, path, yaw, curvature,
                   dx, dy, result, calls>>

\* Line 134.
Return ==
    /\ pc = "return"
    /\ result' = CubicPath2D(path, yaw, curvature)
    /\ pc' = "done"
    /\ UNCHANGED <<args, norms, steps, cubic_spline, path, yaw, curvature,
                   dx, dy, raised, calls>>

Next ==
    \/ Parameterize
    \/ Sample
    \/ Fit
    \/ FitReraise
    \/ FitDuplicate
    \/ EvalPath
    \/ EvalYaw
    \/ SkipCurvature
    \/ CurvatureReuse
    \/ CurvatureRecompute
    \/ CurvatureRaise
    \/ Return

Spec == Init /\ [][Next]_vars

-----------------------------------------------------------------------------
(* Properties.                                                             *)

HasConsecutiveDuplicate(pts) == \E i \in 1..(Len(pts) - 1) : pts[i] = pts[i + 1]

Finished == pc \in {"done", "raised"}

\* The flags of a profile, by the names of the enumeration.
WantsPath == profile \in {PATH, NO_CURVATURE, NO_YAW, ALL}
WantsYaw == profile \in {YAW, NO_CURVATURE, NO_PATH, ALL}
WantsCurvature == profile \in {CURVATURE, NO_YAW, NO_PATH, ALL}

\* C1: a call whose waypoints hold two immediately consecutive identical
\* points ends by raising ConsecutiveDuplicateError, whatever the points, the
\* profile, the step and the boundary condition.
C1_DuplicateRaisesDuplicateError ==
    (HasConsecutiveDuplicate(points) /\ Finished)
        => (pc = "raised" /\ raised.type = "ConsecutiveDuplicateError")

\* C2: a call whose waypoints hold no two consecutive identical points never
\* raises ConsecutiveDuplicateError: a failure of the fit reaches the caller
\* as the fit's own error.
C2_NoDuplicateNoDuplicateError ==
    (~HasConsecutiveDuplicate(points) /\ pc = "raised")
        => /\ raised.type # "ConsecutiveDuplicateError"
           /\ (CubicSplineError(norms, points, boundary_condition_type) # NoException
                  => raised = CubicSplineError(norms, points, boundary_condition_type))

\* Waypoints the fit accepts under the default boundary condition: two or
\* more, no consecutive duplicates, every segment of non-zero length.
ValidCall ==
    /\ Len(points) >= 2
    /\ ~HasConsecutiveDuplicate(points)
    /\ StrictlyIncreasing(ArcLengths(points))
    /\ boundary_condition_type = "natural"

\* C3: for valid waypoints, whatever the step and the profile, the call does
\* not raise, and the record it returns holds a computed sequence in the slot
\* of every requested flag.
C3_ValidCallReturnsRequestedSlots ==
    ValidCall =>
        /\ pc # "raised"
        /\ pc = "done" =>
              /\ WantsPath => result.path.present
              /\ WantsYaw => result.yaw.present
              /\ WantsCurvature => result.curvature.present

\* C4: when both YAW and CURVATURE are requested, a call that reaches its
\* return has evaluated the first derivative at the samples exactly once.
C4_FirstDerivativeEvaluatedOnce ==
    (WantsYaw /\ WantsCurvature /\ pc \in {"return", "done"}) => calls.first = 1

\* C5: a flag that is not in the profile produces no computation and no
\* array: its slot stays None, the curve position is not evaluated without
\* PATH, no arctan2 is computed without YAW, the second derivative is not
\* evaluated without CURVATURE.
C5_UnrequestedFlagsCostNothing ==
    /\ ~WantsPath => (path = None /\ calls.position = 0 /\ result.path = None)
    /\ ~WantsYaw => (yaw = None /\ calls.arctan2 = 0 /\ result.yaw = None)
    /\ ~WantsCurvature =>
          (curvature = None /\ calls.second = 0 /\ result.curvature = None)

\* A call with Profile.CURVATURE alone has returned: curvature only.
C5_Witness ==
    /\ pc = "done"
    /\ profile = CURVATURE
    /\ result.curvature.present
    /\ Len(result.curvature.val) >= 2
    /\ result.path = None
    /\ result.yaw = None
    /\ calls = [position |-> 0, first |-> 1, second |-> 1, arctan2 |-> 0]

\* The k-th multiple of the step, as the float arithmetic computes it.
Multiple(k) == FMul(k * One, distance_step)

\* C6: the samples a fitted curve is evaluated at are exactly the multiples
\* k * distance_step, k >= 0, that are strictly below the total arc length:
\* each sample is such a multiple, every such multiple is a sample, the total
\* length itself is never one, and there is no sample when the length is 0.
C6_SamplesAreMultiplesBelowLength ==
    cubic_spline.fitted =>
        LET total == norms[Len(norms)]
        IN  /\ \A i \in 1..Len(steps) : steps[i] = Multiple(i - 1) /\ steps[i] < total
            /\ Multiple(Len(steps)) >= total
            /\ total = 0 => steps = <<>>

\* C7: a ConsecutiveDuplicateError carries the ValueError of the fit as its
\* cause, and its message is the fixed one, not the fit's.
C7_DuplicateErrorChainsFitError ==
    raised.type = "ConsecutiveDuplicateError" =>
        /\ Len(raised.cause) = 1
        /\ raised.cause[1].type = "ValueError"
        /\ raised.cause[1] = CubicSplineError(norms, points, boundary_condition_type)
        /\ raised.message = "Your input should not contain consecutive duplicate(s)!"
        /\ raised.message # raised.cause[1].message

\* test_exception: the test's waypoints with Profile.ALL have raised the
\* duplicate error.
C7_Witness ==
    /\ pc = "raised"
    /\ points = TestWaypoints
    /\ profile = ALL
    /\ raised.type = "ConsecutiveDuplicateError"
    /\ raised.cause = <<ValueError("x must be strictly increasing sequence")>>

\* C9: in a returned record every present slot has one entry per sample, and
\* entry i of each is computed at the i-th sample, (i-1) * distance_step.
C9_SlotsAlignedWithSamples ==
    pc = "done" =>
        /\ \A i \in 1..Len(steps) : steps[i] = Multiple(i - 1)
        /\ result.path.present =>
              /\ Len(result.path.val) = Len(steps)
              /\ \A i \in 1..Len(steps) :
                    \A j \in 1..2 : result.path.val[i][j].at = steps[i]
        /\ result.yaw.present =>
              /\ Len(result.yaw.val) = Len(steps)
              /\ \A i \in 1..Len(steps) :
                    \A j \in 1..2 : result.yaw.val[i].args[j].at = steps[i]
        /\ result.curvature.present =>
              /\ Len(result.curvature.val) = Len(steps)
              /\ \A i \in 1..Len(steps) :
                    \A j \in 1..4 : result.curvature.val[i].args[j].at = steps[i]

\* A record with path and curvature over at least three samples is returned.
C9_Witness ==
    /\ pc = "done"
    /\ profile = NO_YAW
    /\ Len(steps) >= 3
    /\ result.path.present
    /\ result.curvature.present
    /\ Len(result.path.val) = Len(result.curvature.val)

\* The Euclidean distance of two waypoints, in float arithmetic.
Distance(p, q) == Norm(<<FSub(q[1], p[1]), FSub(q[2], p[2])>>)

ArcLengthRecurrence ==
    /\ Len(norms) = Len(points)
    /\ norms[1] = 0
    /\ \A i \in 1..(Len(points) - 1) :
          /\ norms[i + 1] = FAdd(norms[i], Distance(points[i], points[i + 1]))
          /\ norms[i] <= norms[i + 1]

\* C10: the arc-length array has one entry per waypoint, starts at 0, adds
\* the distance of each segment, is non-decreasing, and is strictly
\* increasing if and only if no two consecutive waypoints are identical.
C10_StrictlyIncreasingIffNoDuplicate ==
    pc # "norms" =>
        /\ ArcLengthRecurrence
        /\ StrictlyIncreasing(norms) <=> ~HasConsecutiveDuplicate(points)

\* C10, amended: as above, but only one direction: two consecutive identical
\* waypoints always repeat an entry of the array (a segment whose length
\* rounds to nothing repeats one too).
C10_DuplicateBreaksStrictIncrease ==
    pc # "norms" =>
        /\ ArcLengthRecurrence
        /\ \A i \in 1..(Len(points) - 1) :
              points[i] = points[i + 1] => norms[i] = norms[i + 1]
        /\ HasConsecutiveDuplicate(points) => ~StrictlyIncreasing(norms)

\* The test's waypoints are parameterized: the duplicate repeats an entry.
C10_Witness ==
    /\ pc = "fit"
    /\ points = TestWaypoints
    /\ norms[1] = 0
    /\ norms[2] > 0
    /\ norms[2] = norms[3]
    /\ norms[3] < norms[4]

====
